---- MODULE Spec2Model ----
(***************************************************************************)
(* The AMM RPC facade of pallets/amm/rpc/src/lib.rs: four read-only        *)
(* operations that resolve a block (explicit `at` or the client's best     *)
(* hash), call the runtime API at that block and map a failure to one      *)
(* RpcError.  The runtime API (the query engine) and the client's head     *)
(* are collaborators; the engine is a substitute written from the          *)
(* specification, observed through a spy log.                              *)
(***************************************************************************)
EXTENDS Integers, Sequences, FiniteSets, TLC

\* ------------------------------------------------------------- bounds
MaxCalls == 2
MaxHash == 2
MaxAsset == 2
MaxAmount == 1
MaxPool == 2
MaxReserve == 1

Calls == 1..MaxCalls
Hashes == 1..MaxHash
Assets == 1..MaxAsset
Amounts == 0..MaxAmount
Pools == 1..MaxPool

\* ------------------------------------------------------------- values
\* Option<T>: None is the empty tuple, Some(x) the one-element tuple.
None == <<>>
Some(x) == <<x>>

unwrap_or_else(opt, dflt) == IF opt = None THEN dflt ELSE opt[1]

\* Result<T, E>
Ok(v) == [tag |-> "Ok", val |-> <<v>>, err |-> <<>>]
Err(e) == [tag |-> "Err", val |-> <<>>, err |-> <<e>>]
IsOk(r) == r.tag = "Ok"
IsErr(r) == r.tag = "Err"

BalanceInfo(asset, amount) == [asset |-> asset, amount |-> amount]

\* pub enum Error { RuntimeError }
RuntimeError == "RuntimeError"

\* impl From<Error> for i64
ErrorIntoI64(e) == CASE e = RuntimeError -> 1

\* jsonrpc_core::ErrorCode::ServerError(i64) as the code field is written
ServerError(n) == [kind |-> "ServerError", code |-> n]

\* format!("{:?}", e): the debug rendering of an engine failure
DebugFmt(e) == [debug |-> e]

\* The per-operation messages of the four map_err closures
SpotMessage == "Unable to get spot price."
SellMessage == "Unable to calculate sell price."
BuyMessage == "Unable to calculate buy price."
PoolMessage == "Unable to retrieve pool balances."

\* RpcError with the message of get_spot_price pasted into every closure
RpcErrorSpotMessage(message, e) ==
  [code |-> ServerError(ErrorIntoI64(RuntimeError)),
   message |-> SpotMessage,
   data |-> Some(DebugFmt(e))]

\* The RpcError each map_err closure builds
RpcError(message, e) ==
  [code |-> ServerError(ErrorIntoI64(RuntimeError)),
   message |-> message,
   data |-> Some(DebugFmt(e))]

\* Result::map_err with the closure of an operation
MapErr(r, message) == IF IsOk(r) THEN r ELSE Err(RpcError(message, r.err[1]))

\* BlockId::hash(h)
BlockId_hash(h) == [kind |-> "Hash", hash |-> h]

\* ------------------------------------------------------------- the engine
\* State of one snapshot as the substitute engine keeps it.
NoSnapshot == [exists |-> FALSE, reserve |-> 0, faulty |-> FALSE]
Healthy(r) == [exists |-> TRUE, reserve |-> r, faulty |-> FALSE]
Faulty == [exists |-> TRUE, reserve |-> 0, faulty |-> TRUE]
SnapStates == {Healthy(r) : r \in 0..MaxReserve} \cup {Faulty}

\* The failures the engine reports
FailureKinds ==
  {"UnknownBlock", "InternalFault", "InvalidAssetPair", "InsufficientLiquidity",
   "InvalidPoolAddress"}

\* Failures common to every method at snapshot s (<<>> when there is none)
SnapshotFailure(s) ==
  IF ~s.exists THEN <<"UnknownBlock">>
  ELSE IF s.faulty THEN <<"InternalFault">>
  ELSE <<>>

\* AMMRuntimeApi::get_spot_price at snapshot state s
runtime_get_spot_price(s, asset_a, asset_b, amount) ==
  IF SnapshotFailure(s) # <<>> THEN Err(SnapshotFailure(s)[1])
  ELSE Ok(BalanceInfo(asset_b, 10 + 2 * s.reserve + amount))

\* AMMRuntimeApi::get_sell_price at snapshot state s
runtime_get_sell_price(s, asset_a, asset_b, amount) ==
  IF SnapshotFailure(s) # <<>> THEN Err(SnapshotFailure(s)[1])
  ELSE IF asset_a = asset_b THEN Err("InvalidAssetPair")
  ELSE IF amount > s.reserve THEN Err("InsufficientLiquidity")
  ELSE Ok(BalanceInfo(asset_b, 20 + 2 * s.reserve + amount))

\* AMMRuntimeApi::get_buy_price at snapshot state s
runtime_get_buy_price(s, asset_a, asset_b, amount) ==
  IF SnapshotFailure(s) # <<>> THEN Err(SnapshotFailure(s)[1])
  ELSE IF asset_a = asset_b THEN Err("InvalidAssetPair")
  ELSE IF amount > s.reserve THEN Err("InsufficientLiquidity")
  ELSE Ok(BalanceInfo(asset_a, 30 + 2 * s.reserve + amount))

\* AMMRuntimeApi::get_pool_balances at snapshot state s: pool 1 is the only
\* pool; it is empty while the reserve is 0 and is listed asset 2 first.
runtime_get_pool_balances(s, pool_address) ==
  IF SnapshotFailure(s) # <<>> THEN Err(SnapshotFailure(s)[1])
  ELSE IF pool_address # 1 THEN Err("InvalidPoolAddress")
  ELSE IF s.reserve = 0 THEN Ok(<<>>)
  ELSE Ok(<<BalanceInfo(2, s.reserve), BalanceInfo(1, 10 + s.reserve),
            BalanceInfo(2, s.reserve)>>)

\* ------------------------------------------------------------- state
VARIABLES
  best_hash,    \* self.client.info().best_hash
  chain,        \* the engine's state per snapshot identifier
  pc,           \* per call: "idle", "resolved" (before the api call), "done"
  req,          \* per call: the operation and the caller's arguments
  block,        \* per call: the local `at` (a BlockId) after resolution
  result,       \* per call: the outcomes the call has returned, in order
  trace,        \* per call: its reads of info() and its api calls, in order
  seen,         \* per call: the heads reported since the call started
  engineLog,    \* per call: what the engine saw and answered
  lastOmitted   \* block of the latest engine call made for an omitted `at`

vars ==
  <<best_hash, chain, pc, req, block, result, trace, seen, engineLog, lastOmitted>>

NoReq == [op |-> "none", args |-> <<>>, at |-> None]
NoBlock == BlockId_hash(0)

Ats == {None} \cup {Some(h) : h \in Hashes}

Init ==
  /\ best_hash = 1
  /\ chain = [h \in Hashes |-> IF h = 1 THEN Healthy(MaxReserve) ELSE NoSnapshot]
  /\ pc = [c \in Calls |-> "idle"]
  /\ req = [c \in Calls |-> NoReq]
  /\ block = [c \in Calls |-> NoBlock]
  /\ result = [c \in Calls |-> <<>>]
  /\ trace = [c \in Calls |-> <<>>]
  /\ seen = [c \in Calls |-> {}]
  /\ engineLog = [c \in Calls |-> <<>>]
  /\ lastOmitted = 0

\* ------------------------------------------------------------- the dispatcher
\* ResolveAt remembering the block of the previous omitted-`at` call
ResolveAtMemo(at) ==
  BlockId_hash(unwrap_or_else(at, IF lastOmitted # 0 THEN lastOmitted ELSE best_hash))

\* ResolveAt replacing an `at` that names no snapshot by the best hash
ResolveAtValidated(at) ==
  IF at # None /\ ~chain[at[1]].exists
  THEN BlockId_hash(best_hash)
  ELSE BlockId_hash(unwrap_or_else(at, best_hash))

\* at.unwrap_or_else(|| self.client.info().best_hash), wrapped by BlockId::hash
ResolveAt(at) == BlockId_hash(unwrap_or_else(at, best_hash))

\* The reads of info() that resolving `at` makes
InfoReads(at) == IF at = None THEN <<"info">> ELSE <<>>

\* Lines 103-106 (and the same lines of the other three methods): take the
\* runtime api handle and resolve `at`.
Enter(c, op, args, at) ==
  /\ pc[c] = "idle"
  /\ pc' = [pc EXCEPT ![c] = "resolved"]
  /\ req' = [req EXCEPT ![c] = [op |-> op, args |-> args, at |-> at]]
  /\ block' = [block EXCEPT ![c] = ResolveAt(at)]
  /\ trace' = [trace EXCEPT ![c] = InfoReads(at)]
  /\ seen' = [seen EXCEPT ![c] = {best_hash}]
  /\ UNCHANGED <<best_hash, chain, result, engineLog, lastOmitted>>

\* What the spy engine records of one invocation
Observed(method, at, args, ret) ==
  [method |-> method, at |-> at, args |-> args, ret |-> ret, snap |-> chain[at.hash],
   prev |-> lastOmitted]

\* Complete calling the engine a second time after a failure
CompleteRetry(c, method, args, ret, message) ==
  /\ pc' = [pc EXCEPT ![c] = "done"]
  /\ engineLog' =
       [engineLog EXCEPT ![c] =
         IF IsErr(ret)
         THEN Append(Append(@, Observed(method, block[c], args, ret)),
                     Observed(method, block[c], args, ret))
         ELSE Append(@, Observed(method, block[c], args, ret))]
  /\ trace' = [trace EXCEPT ![c] = IF IsErr(ret) THEN @ \o <<"api", "api">> ELSE Append(@, "api")]
  /\ result' = [result EXCEPT ![c] = Append(@, MapErr(ret, message))]
  /\ lastOmitted' = IF req[c].at = None THEN block[c].hash ELSE lastOmitted
  /\ UNCHANGED <<best_hash, chain, req, block, seen>>

\* Complete making the queried block the head
CompleteMovesHead(c, method, args, ret, message) ==
  /\ pc' = [pc EXCEPT ![c] = "done"]
  /\ engineLog' = [engineLog EXCEPT ![c] = Append(@, Observed(method, block[c], args, ret))]
  /\ trace' = [trace EXCEPT ![c] = Append(@, "api")]
  /\ result' = [result EXCEPT ![c] = Append(@, MapErr(ret, message))]
  /\ lastOmitted' = IF req[c].at = None THEN block[c].hash ELSE lastOmitted
  /\ best_hash' = IF chain[block[c].hash].exists THEN block[c].hash ELSE best_hash
  /\ UNCHANGED <<chain, req, block, seen>>

\* Complete resolving `at` again when the engine is called
CompleteReread(c, method, args, ret, message) ==
  /\ pc' = [pc EXCEPT ![c] = "done"]
  /\ engineLog' =
       [engineLog EXCEPT ![c] = Append(@, Observed(method, ResolveAt(req[c].at), args, ret))]
  /\ trace' = [trace EXCEPT ![c] = @ \o InfoReads(req[c].at) \o <<"api">>]
  /\ result' = [result EXCEPT ![c] = Append(@, MapErr(ret, message))]
  /\ lastOmitted' = IF req[c].at = None THEN ResolveAt(req[c].at).hash ELSE lastOmitted
  /\ UNCHANGED <<best_hash, chain, req, block, seen>>

\* The api call of a method and the map_err on its result: `ret` is what the
\* engine method `method` answered for `args` at block[c].
Complete(c, method, args, ret, message) ==
  /\ pc' = [pc EXCEPT ![c] = "done"]
  /\ engineLog' = [engineLog EXCEPT ![c] = Append(@, Observed(method, block[c], args, ret))]
  /\ trace' = [trace EXCEPT ![c] = Append(@, "api")]
  /\ result' = [result EXCEPT ![c] = Append(@, MapErr(ret, message))]
  /\ lastOmitted' = IF req[c].at = None THEN block[c].hash ELSE lastOmitted
  /\ UNCHANGED <<best_hash, chain, req, block, seen>>

get_spot_price(c, asset_a, asset_b, amount, at) ==
  Enter(c, "spot", <<asset_a, asset_b, amount>>, at)

\* get_sell_price answering an amount of 0 itself, without the engine
get_sell_price_shortcut(c, asset_a, asset_b, amount, at) ==
  IF amount = 0
  THEN /\ pc[c] = "idle"
       /\ pc' = [pc EXCEPT ![c] = "done"]
       /\ req' = [req EXCEPT ![c] = [op |-> "sell", args |-> <<asset_a, asset_b, amount>>, at |-> at]]
       /\ block' = [block EXCEPT ![c] = ResolveAt(at)]
       /\ trace' = [trace EXCEPT ![c] = InfoReads(at)]
       /\ seen' = [seen EXCEPT ![c] = {best_hash}]
       /\ result' = [result EXCEPT ![c] = <<Ok(BalanceInfo(asset_b, 0))>>]
       /\ UNCHANGED <<best_hash, chain, engineLog, lastOmitted>>
  ELSE Enter(c, "sell", <<asset_a, asset_b, amount>>, at)

get_sell_price(c, asset_a, asset_b, amount, at) ==
  Enter(c, "sell", <<asset_a, asset_b, amount>>, at)

get_buy_price(c, asset_a, asset_b, amount, at) ==
  Enter(c, "buy", <<asset_a, asset_b, amount>>, at)

get_pool_balances(c, pool_address, at) ==
  Enter(c, "pool", <<pool_address>>, at)

\* Line 108-112
api_get_spot_price(c) ==
  /\ pc[c] = "resolved" /\ req[c].op = "spot"
  /\ LET a == req[c].args IN
       Complete(c, "get_spot_price", <<a[1], a[2], a[3]>>,
                runtime_get_spot_price(chain[block[c].hash], a[1], a[2], a[3]),
                SpotMessage)

\* api_get_sell_price passing the two assets in the other order
api_get_sell_price_swapped(c) ==
  /\ pc[c] = "resolved" /\ req[c].op = "sell"
  /\ LET a == req[c].args IN
       Complete(c, "get_sell_price", <<a[2], a[1], a[3]>>,
                runtime_get_sell_price(chain[block[c].hash], a[2], a[1], a[3]),
                SellMessage)

\* Line 127-131
api_get_sell_price(c) ==
  /\ pc[c] = "resolved" /\ req[c].op = "sell"
  /\ LET a == req[c].args IN
       Complete(c, "get_sell_price", <<a[1], a[2], a[3]>>,
                runtime_get_sell_price(chain[block[c].hash], a[1], a[2], a[3]),
                SellMessage)

\* Line 146-150
api_get_buy_price(c) ==
  /\ pc[c] = "resolved" /\ req[c].op = "buy"
  /\ LET a == req[c].args IN
       Complete(c, "get_buy_price", <<a[1], a[2], a[3]>>,
                runtime_get_buy_price(chain[block[c].hash], a[1], a[2], a[3]),
                BuyMessage)

\* The balances of s ordered by asset identifier
RECURSIVE SortedByAsset(_, _)
SortedByAsset(s, k) ==
  IF k > MaxAsset THEN <<>>
  ELSE SelectSeq(s, LAMBDA x : x.asset = k) \o SortedByAsset(s, k + 1)

SortedResult(r) == IF IsOk(r) THEN Ok(SortedByAsset(r.val[1], 1)) ELSE r

\* api_get_pool_balances returning the balances sorted by asset
api_get_pool_balances_sorted(c) ==
  /\ pc[c] = "resolved" /\ req[c].op = "pool"
  /\ LET a == req[c].args
         ret == runtime_get_pool_balances(chain[block[c].hash], a[1])
     IN
       /\ pc' = [pc EXCEPT ![c] = "done"]
       /\ engineLog' =
            [engineLog EXCEPT ![c] =
              Append(@, Observed("get_pool_balances", block[c], <<a[1]>>, ret))]
       /\ trace' = [trace EXCEPT ![c] = Append(@, "api")]
       /\ result' = [result EXCEPT ![c] = Append(@, SortedResult(MapErr(ret, PoolMessage)))]
       /\ lastOmitted' = IF req[c].at = None THEN block[c].hash ELSE lastOmitted
       /\ UNCHANGED <<best_hash, chain, req, block, seen>>

\* Line 163-167
api_get_pool_balances(c) ==
  /\ pc[c] = "resolved" /\ req[c].op = "pool"
  /\ LET a == req[c].args IN
       Complete(c, "get_pool_balances", <<a[1]>>,
                runtime_get_pool_balances(chain[block[c].hash], a[1]),
                PoolMessage)

\* The transport takes the outcome; the call's values are dropped.
Return(c) ==
  /\ pc[c] = "done"
  /\ pc' = [pc EXCEPT ![c] = "idle"]
  /\ req' = [req EXCEPT ![c] = NoReq]
  /\ block' = [block EXCEPT ![c] = NoBlock]
  /\ result' = [result EXCEPT ![c] = <<>>]
  /\ trace' = [trace EXCEPT ![c] = <<>>]
  /\ seen' = [seen EXCEPT ![c] = {}]
  /\ engineLog' = [engineLog EXCEPT ![c] = <<>>]
  /\ UNCHANGED <<best_hash, chain, lastOmitted>>

\* ------------------------------------------------------------- the environment
\* A block is imported and becomes the best block.
AdvanceHead ==
  \E h \in Hashes, s \in SnapStates :
    /\ ~chain[h].exists
    /\ chain' = [chain EXCEPT ![h] = s]
    /\ best_hash' = h
    /\ seen' = [c \in Calls |-> IF pc[c] = "resolved" THEN seen[c] \cup {h} ELSE seen[c]]
    /\ UNCHANGED <<pc, req, block, result, trace, engineLog, lastOmitted>>

\* The steps of call c
Step(c) ==
  \/ \E a \in Assets, b \in Assets, n \in Amounts, at \in Ats : get_spot_price(c, a, b, n, at)
  \/ \E a \in Assets, b \in Assets, n \in Amounts, at \in Ats : get_sell_price(c, a, b, n, at)
  \/ \E a \in Assets, b \in Assets, n \in Amounts, at \in Ats : get_buy_price(c, a, b, n, at)
  \/ \E p \in Pools, at \in Ats : get_pool_balances(c, p, at)
  \/ api_get_spot_price(c)
  \/ api_get_sell_price(c)
  \/ api_get_buy_price(c)
  \/ api_get_pool_balances(c)
  \/ Return(c)

\* One call at a time, each run to completion, while the head may advance.
NextOne == Step(1) \/ AdvanceHead

\* Any number of calls in flight, interleaved with each other and the head.
Next == (\E c \in Calls : Step(c)) \/ AdvanceHead

Spec == Init /\ [][NextOne]_vars

ConcSpec == Init /\ [][Next]_vars

\* ------------------------------------------------------------- properties
PriceOps == {"spot", "sell", "buy"}

\* The engine method and the message that belong to each operation
MethodOf(op) ==
  CASE op = "spot" -> "get_spot_price"
    [] op = "sell" -> "get_sell_price"
    [] op = "buy" -> "get_buy_price"
    [] op = "pool" -> "get_pool_balances"

MessageOf(op) ==
  CASE op = "spot" -> "Unable to get spot price."
    [] op = "sell" -> "Unable to calculate sell price."
    [] op = "buy" -> "Unable to calculate buy price."
    [] op = "pool" -> "Unable to retrieve pool balances."

Done(c) == pc[c] = "done"

\* A RuntimeFailure for operation op carrying the rendering of failure e
IsRuntimeFailure(r, op, e) ==
  /\ IsErr(r)
  /\ r.err[1].code.kind = "ServerError"
  /\ r.err[1].code.code = 1
  /\ r.err[1].message = MessageOf(op)
  /\ r.err[1].data # None
  /\ r.err[1].data[1] = DebugFmt(e)

\* C1: when the engine method succeeds, the call returns exactly the engine's
\* value, and the engine method invoked is the one of the operation called,
\* with the caller's arguments in the caller's order.
C1_ReturnsEngineValue ==
  \A c \in Calls :
    Done(c) =>
      /\ Len(engineLog[c]) = 1
      /\ engineLog[c][1].method = MethodOf(req[c].op)
      /\ engineLog[c][1].args = req[c].args
      /\ IsOk(engineLog[c][1].ret) =>
           /\ Len(result[c]) = 1
           /\ IsOk(result[c][1])
           /\ result[c][1].val = engineLog[c][1].ret.val

C1_Witness ==
  \E c \in Calls :
    /\ Done(c)
    /\ req[c].op = "sell"
    /\ req[c].args = <<1, 2, 1>>
    /\ engineLog[c][1].args = <<1, 2, 1>>
    /\ result[c] = <<Ok(BalanceInfo(2, 23))>>

\* C2: every engine failure, of whatever kind and for whatever operation,
\* returns an error with code 1, the fixed message of the operation called and
\* a data field carrying the rendering of the failure; never a success.
C2_FailureIsRuntimeFailure ==
  \A c \in Calls :
    (Done(c) /\ IsErr(engineLog[c][1].ret)) =>
      /\ Len(result[c]) = 1
      /\ engineLog[c][1].ret.err[1] \in FailureKinds
      /\ IsRuntimeFailure(result[c][1], req[c].op, engineLog[c][1].ret.err[1])

C2_Witness ==
  \E c \in Calls :
    /\ Done(c)
    /\ req[c].op = "buy"
    /\ engineLog[c][1].ret = Err("InsufficientLiquidity")
    /\ result[c][1].err[1].code.code = 1
    /\ result[c][1].err[1].message = "Unable to calculate buy price."
    /\ result[c][1].err[1].data = Some(DebugFmt("InsufficientLiquidity"))

\* C3: a call that omits `at` resolves to the head reported at that moment of
\* that call and queries the engine there, whatever an earlier omitted-`at`
\* call resolved to: nothing is remembered between calls.
C3_OmittedAtIsCurrentHead ==
  [][\A c \in Calls :
       /\ (pc[c] = "idle" /\ pc'[c] = "resolved" /\ req'[c].at = None) =>
            block'[c] = BlockId_hash(best_hash)
       /\ (pc[c] = "resolved" /\ pc'[c] = "done" /\ req[c].at = None) =>
            /\ Len(engineLog'[c]) = 1
            /\ engineLog'[c][1].at = block[c]]_vars

C3_Witness ==
  \E c \in Calls :
    /\ Done(c)
    /\ req[c].at = None
    /\ engineLog[c][1].prev = 1
    /\ engineLog[c][1].at.hash = 2
    /\ engineLog[c][1].snap = chain[2]

\* C4: a call that supplies `at` never reads the head and queries the engine
\* at exactly the supplied identifier; an identifier the engine does not know
\* is not rejected here but comes back as the engine's failure with code 1.
C4_ExplicitAtBypassesHead ==
  \A c \in Calls :
    (pc[c] # "idle" /\ req[c].at # None) =>
      /\ \A i \in 1..Len(trace[c]) : trace[c][i] # "info"
      /\ block[c] = BlockId_hash(req[c].at[1])
      /\ Done(c) =>
           /\ Len(engineLog[c]) = 1
           /\ engineLog[c][1].at = BlockId_hash(req[c].at[1])
           /\ ~engineLog[c][1].snap.exists =>
                IsRuntimeFailure(result[c][1], req[c].op, "UnknownBlock")

C4_Witness ==
  \E c \in Calls :
    /\ Done(c)
    /\ req[c].at = Some(2)
    /\ best_hash = 1
    /\ ~chain[2].exists
    /\ engineLog[c][1].at.hash = 2
    /\ IsRuntimeFailure(result[c][1], req[c].op, "UnknownBlock")

\* Number of api calls in a trace
RECURSIVE ApiCalls(_)
ApiCalls(t) ==
  IF t = <<>> THEN 0 ELSE (IF Head(t) = "api" THEN 1 ELSE 0) + ApiCalls(Tail(t))

\* C5: a call invokes the engine exactly once and finishes with exactly one
\* outcome, a success or a RuntimeFailure; a failed engine call is not retried
\* and a call in flight can always take its engine step.
C5_OneEngineCallOneOutcome ==
  \A c \in Calls :
    /\ pc[c] \in {"idle", "resolved"} =>
         /\ engineLog[c] = <<>>
         /\ result[c] = <<>>
         /\ ApiCalls(trace[c]) = 0
    /\ pc[c] = "resolved" =>
         ENABLED (\/ api_get_spot_price(c) \/ api_get_sell_price(c)
                  \/ api_get_buy_price(c) \/ api_get_pool_balances(c))
    /\ Done(c) =>
         /\ Len(engineLog[c]) = 1
         /\ ApiCalls(trace[c]) = 1
         /\ Len(result[c]) = 1
         /\ IsOk(result[c][1]) = IsOk(engineLog[c][1].ret)
         /\ IsErr(result[c][1]) = IsErr(engineLog[c][1].ret)
         /\ IsOk(result[c][1]) # IsErr(result[c][1])
         /\ IsErr(result[c][1]) => result[c][1].err[1].code.code = 1

C5_Witness ==
  \E c \in Calls :
    /\ Done(c)
    /\ req[c].op = "sell"
    /\ IsErr(engineLog[c][1].ret)
    /\ Len(engineLog[c]) = 1
    /\ Len(result[c]) = 1
    /\ IsErr(result[c][1])

\* C6: get_pool_balances succeeds with exactly the engine's sequence (same
\* length, elements and order; an empty sequence stays a successful empty
\* list) or fails as a whole with a RuntimeFailure that carries no balances.
C6_PoolBalancesWholeOrNothing ==
  \A c \in Calls :
    (Done(c) /\ req[c].op = "pool") =>
      /\ Len(result[c]) = 1
      /\ IsOk(engineLog[c][1].ret) =>
           /\ IsOk(result[c][1])
           /\ Len(result[c][1].val[1]) = Len(engineLog[c][1].ret.val[1])
           /\ \A i \in 1..Len(engineLog[c][1].ret.val[1]) :
                result[c][1].val[1][i] = engineLog[c][1].ret.val[1][i]
      /\ engineLog[c][1].ret = Ok(<<>>) => result[c][1] = Ok(<<>>)
      /\ IsErr(engineLog[c][1].ret) =>
           /\ result[c][1].val = <<>>
           /\ IsRuntimeFailure(result[c][1], "pool", engineLog[c][1].ret.err[1])

C6_Witness ==
  \E c \in Calls :
    /\ Done(c)
    /\ req[c].op = "pool"
    /\ engineLog[c][1].ret.val # <<>>
    /\ Len(engineLog[c][1].ret.val[1]) = 3
    /\ result[c][1].val[1][1].asset > result[c][1].val[1][2].asset
    /\ result[c][1].val[1][1] = result[c][1].val[1][3]

\* C8: no step of a call changes the engine's per-snapshot state or the head,
\* and the outcome of a call is decided by its operation, its arguments, its
\* resolved snapshot and that snapshot's state alone: two calls that agree on
\* these have the same outcome, whatever was called before either.
C8_ReadOnlyAndStateless ==
  [][/\ (pc' # pc) => (chain' = chain /\ best_hash' = best_hash)
     /\ \A c, d \in Calls :
          (/\ pc'[c] = "done" /\ pc'[d] = "done"
           /\ req'[c].op = req'[d].op
           /\ req'[c].args = req'[d].args
           /\ block'[c] = block'[d]
           /\ engineLog'[c][1].snap = engineLog'[d][1].snap)
            => result'[c] = result'[d]]_vars

C8_Witness ==
  \E c, d \in Calls :
    /\ c # d
    /\ Done(c) /\ Done(d)
    /\ req[c].op = "buy" /\ req[d].op = "buy"
    /\ req[c].args = req[d].args
    /\ req[c].at = None /\ req[d].at = Some(2)
    /\ block[c] = block[d]
    /\ engineLog[c][1].prev # engineLog[d][1].prev
    /\ IsOk(result[c][1])
    /\ result[c] = result[d]
    /\ best_hash = 2

\* C9: a price call with asset_a = asset_b or with amount = 0 reaches the
\* engine with those same arguments, and its outcome is the engine's: the
\* engine's value on success, a RuntimeFailure on failure.
C9_DegenerateArgsPassThrough ==
  \A c \in Calls :
    (/\ Done(c)
     /\ req[c].op \in PriceOps
     /\ (req[c].args[1] = req[c].args[2] \/ req[c].args[3] = 0)) =>
      /\ Len(engineLog[c]) = 1
      /\ engineLog[c][1].method = MethodOf(req[c].op)
      /\ engineLog[c][1].args = req[c].args
      /\ Len(result[c]) = 1
      /\ IsOk(engineLog[c][1].ret) => result[c][1] = engineLog[c][1].ret
      /\ IsErr(engineLog[c][1].ret) =>
           IsRuntimeFailure(result[c][1], req[c].op, engineLog[c][1].ret.err[1])

C9_Witness ==
  \E c \in Calls :
    /\ Done(c)
    /\ req[c].op = "sell"
    /\ req[c].args = <<2, 1, 0>>
    /\ engineLog[c][1].args = <<2, 1, 0>>
    /\ result[c] = <<Ok(BalanceInfo(1, 20))>>

\* The reads of info() and api calls a call may have made so far
TraceOk(c) ==
  IF req[c].at = None
  THEN trace[c] = (IF Done(c) THEN <<"info", "api">> ELSE <<"info">>)
  ELSE trace[c] = (IF Done(c) THEN <<"api">> ELSE <<>>)

\* C10: with calls and head advances interleaved, a call reads the head at
\* most once (once when `at` is omitted, never when supplied) and before its
\* engine call, queries the engine at the value it resolved, which for an
\* omitted `at` was the head at some moment since the call started, and no
\* step of anything else changes a call's resolved snapshot or outcome.
C10_Interleaving ==
  [][\A c \in Calls :
       /\ (pc'[c] # "idle") =>
            /\ TraceOk(c)'
            /\ (req'[c].at = None) => (block'[c].hash \in seen'[c])
            /\ (pc'[c] = "done") =>
                 /\ Len(engineLog'[c]) = 1
                 /\ engineLog'[c][1].at = block'[c]
       /\ (pc'[c] = pc[c]) =>
            /\ req'[c] = req[c]
            /\ block'[c] = block[c]
            /\ result'[c] = result[c]
            /\ engineLog'[c] = engineLog[c]]_vars

C10_Witness ==
  \E c, d \in Calls :
    /\ c # d
    /\ Done(c) /\ Done(d)
    /\ req[c].at = None /\ req[d].at = None
    /\ req[c].op = req[d].op /\ req[c].args = req[d].args
    /\ seen[c] = {1, 2}
    /\ engineLog[c][1].at.hash = 1
    /\ engineLog[c][1].prev = 2
    /\ engineLog[d][1].at.hash = 2
    /\ result[c] # result[d]

====
